---- MODULE Spec2Model ----
(***************************************************************************)
(* Session client of the Babel Fish extension: WebSocketClientService      *)
(* (connection life cycle, heartbeat, reconnection with exponential        *)
(* backoff, inbound dispatch) together with the transports it creates.     *)
(*                                                                         *)
(* Every transport the client creates keeps the callbacks connect()        *)
(* attached to it, whether or not the client still references it in `ws`.  *)
(* Transports the client no longer references are interchangeable, so the  *)
(* model counts them per readyState.  Timeouts created with setTimeout are *)
(* never cancelled by the client; the order in which pending timeouts and  *)
(* transport events occur is left open.                                    *)
(*                                                                         *)
(* On top of the client: the popup with its 5 s timeout, the content       *)
(* script with the useTranslation hook, and translationService (`app`);    *)
(* and the audio chunk functions createAudioChunk and parseAudioChunk with *)
(* the frames sendAudioChunk builds, byte by byte (`io`).  `io` also holds  *)
(* what the other parts studied on their own work on: the chunk list of    *)
(* validateChunkSequence, the useAudioCapture hook with the numbers it     *)
(* gives to captured chunks, and translationService with its session, its  *)
(* latency samples and its result handlers.                                *)
(* Further parts in `io`: the promise of a connect() call, the content     *)
(* script's pipeline from the recorder to the transport, adService with    *)
(* its concurrent displayAd calls, and the geometry of TranslationOverlay. *)
(***************************************************************************)
EXTENDS Integers, Sequences, FiniteSets, Bags, TLC

\* ---------------------------------------------------------------- bounds
MaxChains == 2       \* transports alive plus reconnection timeouts pending
MaxHandlers == 2     \* handlers registered per event type
MaxSessionId == 2    \* distinct session ids the server hands out
MaxStarts == 2       \* clicks on the popup's start button
MaxPayloadLen == 2   \* bytes of audio in a chunk
MaxCalls == 3        \* sendAudioChunk calls that are logged
MaxChunks == 3       \* chunks in a list given to validateChunkSequence
MaxBlobs == 3        \* blobs the recorder delivers in one capture
MaxSamples == 2      \* latency samples of translationService
MaxResultHandlers == 2  \* onTranslationResult calls
MaxClock == 1        \* milliseconds that pass
MaxMetricSamples == 4  \* samples in a list given to getLatencyMetrics
MaxAdCalls == 2      \* displayAd calls
MaxMoves == 1        \* mousemove events on the overlay

\* ------------------------------------------------------ program constants
maxRetries == 3
MIN_WIDTH == 200
MAX_WIDTH == 800
MIN_HEIGHT == 100
MAX_HEIGHT == 600
initialDelayMs == 1000
maxDelayMs == 10000
heartbeatMs == 10000
NormalClosure == 1000
AbnormalClosure == 1006

SessionIds == 1..MaxSessionId
CloseCodes == {NormalClosure, AbnormalClosure}
LiveStates == {"connecting", "open", "closing"}
ReconnectEvents == {"reconnecting", "maxRetries"}
MessageEvents == {"sessionStarted", "translation", "error"}
Events == ReconnectEvents \cup MessageEvents
LifecycleKinds == {"session_started", "pong"}

\* the id useTranslation makes up: `client-${Date.now()}-...`
ClientId == 0 - 1

\* inbound frames: an ArrayBuffer, a Blob, text that is not JSON, the JSON
\* text null, an object without type, and objects by their type
FrameKinds == {"binary", "blob", "invalid_json", "json_null", "no_type",
               "unknown", "pong", "session_stopped",
               "session_started", "translation", "error"}
NoPayload == 0
Payloads == {NoPayload} \cup SessionIds

\* a non-negative integer JavaScript number n as its two halves:
\* n = hi * 65536 + lo with 0 <= lo < 65536; it fits a uint32 when hi < 65536
Halves == {0, 1, 255, 256, 65535}
Numbers == [hi : Halves \cup {65536}, lo : Halves]
Uint32s == [hi : Halves, lo : Halves]
Zero == [hi |-> 0, lo |-> 0]

\* the contents of an ArrayBuffer or Blob of at most n bytes
Bytes == {0, 255}
Buffers(n) == UNION {[1..k -> Bytes] : k \in 0..n}

headerSize == 8

VARIABLES
  ws,                    \* this.ws: readyState of the current transport, or "null"
  orphans,               \* per readyState, the live transports this.ws no longer names
  sessionId,             \* this.sessionId, 0 = null
  heartbeatInterval,     \* this.heartbeatInterval holds an interval handle
  intervals,             \* number of interval timers active on the platform
  reconnectionAttempts,  \* this.reconnectionAttempts
  timers,                \* bag of the delays of the pending setTimeout calls
  handlers,              \* number of handlers registered per event type
  last,                  \* the operation or callback that ran last
  out,                   \* what it did, in order
  userDisconnected,      \* "no", or since the last disconnect() with no connect()
                         \* call after it: "waiting" if a reconnection timeout
                         \* was pending at that call, else "idle"
  exhausted,             \* max retries was reported and connect() not called since
  app,                   \* the layer above the client: popup, translation hook
                         \* and translationService
  io                     \* arguments and results of the audio chunk functions,
                         \* and what the transport was handed; or the state
                         \* of the part a specification studies on its own
                         \* (io.stage tells which)

vars == <<ws, orphans, sessionId, heartbeatInterval, intervals,
          reconnectionAttempts, timers, handlers,
          last, out, userDisconnected, exhausted, app, io>>

\* what the actions of the client leave alone
rest == <<app, io>>

Min(a, b) == IF a <= b THEN a ELSE b

RECURSIVE Pow2(_)
Pow2(n) == IF n <= 0 THEN 1 ELSE 2 * Pow2(n - 1)

\* one entry of `out`: kind, handler index, name, value
Eff(k, i, m, v) == [k |-> k, i |-> i, m |-> m, v |-> v]

\* the record kept in `last`: operation, whether it concerned the current
\* transport, close code (or timeout delay, or inbound session id), whether
\* disconnect() had requested the closure, the result handed to the caller,
\* and from the state before it ran: the retry counter, the session id,
\* whether this.ws was open, whether the same operation ran just before
Op(op, cur, code, req, res) ==
  [op |-> op, cur |-> cur, code |-> code, req |-> req, res |-> res,
   att |-> reconnectionAttempts, sid |-> sessionId, conn |-> (ws = "open"),
   again |-> (last.op = op)]

\* handlers.forEach((handler) => handler(payload)): registration order
Fire(evt, v) == [i \in 1..handlers[evt] |-> Eff("fire", i, evt, v)]

NoOrphans == [st \in LiveStates |-> 0]
OrphanCount == orphans["connecting"] + orphans["open"] + orphans["closing"]

\* transports alive and timeouts pending
Chains ==
  (IF ws \in LiveStates THEN 1 ELSE 0) + OrphanCount + BagCardinality(timers)

\* mutant: any transport object counts as connected
isConnectedAnyTransport == ws # "null"

isConnected == ws = "open"

\* mutant: the exponent is the counter itself
BackoffDelayOffByOne(n) == Min(initialDelayMs * Pow2(n), maxDelayMs)

\* delay = min(initialDelayMs * 2^(attempts - 1), maxDelayMs)
BackoffDelay(n) == Min(initialDelayMs * Pow2(n - 1), maxDelayMs)

\* stopHeartbeat(): the number of intervals left active
stopHeartbeat == IF heartbeatInterval THEN intervals - 1 ELSE intervals

\* mutant: the counter is never incremented
attemptReconnectionNoCount ==
  [att |-> reconnectionAttempts,
   tm |-> timers (+) SetToBag({BackoffDelay(reconnectionAttempts + 1)}),
   gaveUp |-> FALSE,
   out |-> <<Eff("call", 0, "attemptReconnection", 0)>>
             \o Fire("reconnecting", 0)
             \o <<Eff("setTimeout", 0, "connect",
                      BackoffDelay(reconnectionAttempts + 1))>>]

\* mutant: one more retry is scheduled before giving up
attemptReconnectionOneMore ==
  IF reconnectionAttempts > maxRetries
  THEN [att |-> reconnectionAttempts, tm |-> timers, gaveUp |-> TRUE,
        out |-> <<Eff("call", 0, "attemptReconnection", 0)>>
                  \o Fire("maxRetries", 0)]
  ELSE [att |-> reconnectionAttempts + 1,
        tm |-> timers (+) SetToBag({BackoffDelay(reconnectionAttempts + 1)}),
        gaveUp |-> FALSE,
        out |-> <<Eff("call", 0, "attemptReconnection", 0)>>
                  \o Fire("reconnecting", 0)
                  \o <<Eff("setTimeout", 0, "connect",
                           BackoffDelay(reconnectionAttempts + 1))>>]

\* attemptReconnection(serverUrl)
attemptReconnection ==
  IF reconnectionAttempts >= maxRetries
  THEN [att |-> reconnectionAttempts, tm |-> timers, gaveUp |-> TRUE,
        out |-> <<Eff("call", 0, "attemptReconnection", 0)>>
                  \o Fire("maxRetries", 0)]
  ELSE [att |-> reconnectionAttempts + 1,
        tm |-> timers (+) SetToBag({BackoffDelay(reconnectionAttempts + 1)}),
        gaveUp |-> FALSE,
        out |-> <<Eff("call", 0, "attemptReconnection", 0)>>
                  \o Fire("reconnecting", 0)
                  \o <<Eff("setTimeout", 0, "connect",
                           BackoffDelay(reconnectionAttempts + 1))>>]

\* mutant: the four bytes are written most significant first
setUint32BigEndian(value) ==
  <<(value.hi % 65536) \div 256, (value.hi % 65536) % 256,
    value.lo \div 256, value.lo % 256>>

\* DataView.setUint32(offset, value, true): the four bytes written, the
\* value taken modulo 2^32, least significant byte first
setUint32(value) ==
  <<value.lo % 256, value.lo \div 256,
    (value.hi % 65536) % 256, (value.hi % 65536) \div 256>>

\* DataView.getUint32(byteOffset, true) on the bytes of buffer
getUint32(buffer, byteOffset) ==
  [hi |-> buffer[byteOffset + 3] + 256 * buffer[byteOffset + 4],
   lo |-> buffer[byteOffset + 1] + 256 * buffer[byteOffset + 2]]

\* the message sendAudioChunk builds: a zeroed buffer of headerSize +
\* byteLength bytes, the two header fields, the audio copied behind them
chunkMessage(audioData, sequenceNumber, timestamp) ==
  [i \in 1..(headerSize + Len(audioData)) |->
     IF i <= 4 THEN setUint32(sequenceNumber)[i]
     ELSE IF i <= headerSize THEN setUint32(timestamp)[i - 4]
     ELSE audioData[i - headerSize]]

\* mutant: the audio is not copied into the buffer
createAudioChunkHeaderOnly(blob, sequenceNumber, timestamp) ==
  [i \in 1..(headerSize + Len(blob)) |->
     IF i <= 4 THEN setUint32(sequenceNumber)[i]
     ELSE IF i <= headerSize THEN setUint32(timestamp)[i - 4]
     ELSE 0]

\* createAudioChunk(blob, sequenceNumber, timestamp): the buffer it resolves to
createAudioChunk(blob, sequenceNumber, timestamp) ==
  [i \in 1..(headerSize + Len(blob)) |->
     IF i <= 4 THEN setUint32(sequenceNumber)[i]
     ELSE IF i <= headerSize THEN setUint32(timestamp)[i - 4]
     ELSE blob[i - headerSize]]

\* mutant: a buffer of exactly 8 bytes is rejected as well
parseAudioChunkStrict(buffer) ==
  IF Len(buffer) <= 8
  THEN [ok |-> FALSE, error |-> "Invalid audio chunk: buffer too small"]
  ELSE [ok |-> TRUE,
        data |-> SubSeq(buffer, 9, Len(buffer)),
        sequenceNumber |-> getUint32(buffer, 0),
        timestamp |-> getUint32(buffer, 4)]

\* parseAudioChunk(buffer): the chunk it returns or the error it throws
parseAudioChunk(buffer) ==
  IF Len(buffer) < 8
  THEN [ok |-> FALSE, error |-> "Invalid audio chunk: buffer too small"]
  ELSE [ok |-> TRUE,
        data |-> SubSeq(buffer, 9, Len(buffer)),
        sequenceNumber |-> getUint32(buffer, 0),
        timestamp |-> getUint32(buffer, 4)]

\* sendMessage(message): what it hands to the transport, or the error it throws
sendMessage(m, v) ==
  IF isConnected THEN <<Eff("send", 0, m, v)>>
                 ELSE <<Eff("throw", 0, "WebSocket not connected", 0)>>

\* the popup is closed, the translation app is not mounted and
\* translationService holds no session
AppInit ==
  [popup |-> "closed",        \* the popup page: "closed" or "open"
   isTranslating |-> FALSE,   \* Popup state isTranslating
   statusMessage |-> "none",  \* Popup state statusMessage
   connectionTimeout |-> 0,   \* Popup state connectionTimeout, 0 = null
   popupTimers |-> {},        \* handles of the popup's pending 5 s timeouts
   handles |-> 0,             \* handles handed out by setTimeout so far
   running |-> <<>>,          \* per handleStartTranslation call awaiting its
                              \* response: the connectionTimeout it closed over
   requests |-> <<>>,         \* START_TRANSLATION messages on their way:
                              \* whether the sender still awaits the response
   responses |-> 0,           \* responses on their way back to the popup
   shown |-> 0,               \* times the timeout message was put on display
                              \* since the translation app was last stopped
   hook |-> "unmounted",      \* useTranslation: "unmounted", "mounted",
                              \* "connecting", "connected", "translating"
   session |-> 0,             \* translationService.session.sessionId, 0 = null
   status |-> "none",         \* translationService.session.status
   deadline |-> "idle",       \* 5 s since the transport opened: "idle",
                              \* "running", "met" (session_started came), "passed"
   due |-> {}]                \* popup timeouts that were set before it opened

IoInit == [stage |-> "none"]

InitClient ==
  /\ ws = "null"
  /\ orphans = NoOrphans
  /\ sessionId = 0
  /\ heartbeatInterval = FALSE
  /\ intervals = 0
  /\ reconnectionAttempts = 0
  /\ timers = EmptyBag
  /\ handlers = [e \in Events |-> 0]
  /\ last = [op |-> "init", cur |-> FALSE, code |-> 0, req |-> FALSE,
             res |-> "ok", att |-> 0, sid |-> 0, conn |-> FALSE,
             again |-> FALSE]
  /\ out = <<>>
  /\ userDisconnected = "no"
  /\ exhausted = FALSE

Init == InitClient /\ app = AppInit /\ io = IoInit

\* the body of connect(serverUrl): a new transport replaces this.ws, the
\* transport this.ws named keeps its callbacks
connect ==
  /\ ws' = "connecting"
  /\ orphans' = IF ws \in LiveStates
                THEN [orphans EXCEPT ![ws] = @ + 1] ELSE orphans
  /\ out' = <<Eff("new", 0, "WebSocket", 0)>>
  /\ UNCHANGED <<sessionId, heartbeatInterval, intervals,
                 reconnectionAttempts, handlers>>

\* the caller invokes connect(serverUrl)
Connect ==
  /\ Chains < MaxChains
  /\ connect
  /\ last' = Op("connect", TRUE, 0, FALSE, "ok")
  /\ userDisconnected' = "no"
  /\ exhausted' = FALSE
  /\ UNCHANGED timers

\* a reconnection timeout elapses: setTimeout(() => this.connect(serverUrl))
TimerFire(d) ==
  /\ BagIn(d, timers)
  /\ connect
  /\ timers' = timers (-) SetToBag({d})
  /\ last' = Op("timer", TRUE, d, FALSE, "ok")
  /\ UNCHANGED <<userDisconnected, exhausted>>

\* the UI registers one handler per event type: onTranslation(h),
\* onSessionStarted(h), onError(h), onReconnecting(h), onMaxRetriesReached(h)
Register ==
  /\ \A e \in Events : handlers[e] < MaxHandlers
  /\ handlers' = [e \in Events |-> handlers[e] + 1]
  /\ last' = Op("register", FALSE, 0, FALSE, "ok")
  /\ out' = <<>>
  /\ UNCHANGED <<ws, orphans, sessionId, heartbeatInterval, intervals,
                 reconnectionAttempts, timers, userDisconnected, exhausted>>

\* mutant: onopen leaves the retry counter as it is
onopenKeepsCounter(cur) ==
  /\ IF cur THEN ws = "connecting" ELSE orphans["connecting"] > 0
  /\ ws' = IF cur THEN "open" ELSE ws
  /\ orphans' = IF cur THEN orphans
                ELSE [orphans EXCEPT !["connecting"] = @ - 1, !["open"] = @ + 1]
  /\ intervals' = stopHeartbeat + 1
  /\ heartbeatInterval' = TRUE
  /\ out' = <<Eff("setInterval", 0, "ping", heartbeatMs),
              Eff("resolve", 0, "connect", 0)>>
  /\ last' = Op("open", cur, 0, FALSE, "ok")
  /\ UNCHANGED <<reconnectionAttempts, sessionId, timers, handlers,
                 userDisconnected, exhausted>>

\* ws.onopen of a transport (cur: the one this.ws names, else an orphan):
\* reset the counter, startHeartbeat(), resolve()
onopen(cur) ==
  /\ IF cur THEN ws = "connecting" ELSE orphans["connecting"] > 0
  /\ ws' = IF cur THEN "open" ELSE ws
  /\ orphans' = IF cur THEN orphans
                ELSE [orphans EXCEPT !["connecting"] = @ - 1, !["open"] = @ + 1]
  /\ reconnectionAttempts' = 0
  /\ intervals' = stopHeartbeat + 1
  /\ heartbeatInterval' = TRUE
  /\ out' = <<Eff("setInterval", 0, "ping", heartbeatMs),
              Eff("resolve", 0, "connect", 0)>>
  /\ last' = Op("open", cur, 0, FALSE, "ok")
  /\ UNCHANGED <<sessionId, timers, handlers, userDisconnected, exhausted>>

\* the close codes the platform can report for a transport in readyState st
ClosableWith(st) ==
  CASE st = "connecting" -> {AbnormalClosure}
    [] st = "open" -> CloseCodes
    [] st = "closing" -> CloseCodes
    [] OTHER -> {}

\* ws.onclose of a transport in readyState st with event.code = code:
\* stopHeartbeat(), and attemptReconnection() unless the code is 1000
onclose(cur, st, code) ==
  /\ IF cur THEN ws = st ELSE orphans[st] > 0
  /\ code \in ClosableWith(st)
  /\ ws' = IF cur THEN "closed" ELSE ws
  /\ orphans' = IF cur THEN orphans ELSE [orphans EXCEPT ![st] = @ - 1]
  /\ intervals' = stopHeartbeat
  /\ heartbeatInterval' = FALSE
  /\ LET r == IF code # NormalClosure THEN attemptReconnection
              ELSE [att |-> reconnectionAttempts, tm |-> timers,
                    gaveUp |-> FALSE, out |-> <<>>]
     IN
       /\ reconnectionAttempts' = r.att
       /\ timers' = r.tm
       /\ out' = r.out
       /\ exhausted' = (exhausted \/ r.gaveUp)
  /\ last' = Op("close", cur, code, st = "closing", "ok")
  /\ UNCHANGED <<sessionId, handlers, userDisconnected>>

\* mutant: this.ws is closed but not set to null
disconnectKeepsTransport ==
  /\ intervals' = stopHeartbeat
  /\ heartbeatInterval' = FALSE
  /\ out' = (IF ws # "null" /\ sessionId # 0
             THEN sendMessage("stop_session", sessionId) ELSE <<>>)
            \o (IF ws # "null"
                THEN <<Eff("close", 0, "Client disconnect", NormalClosure)>>
                ELSE <<>>)
  /\ ws' = IF ws \in {"connecting", "open"} THEN "closing" ELSE ws
  /\ sessionId' = 0
  /\ reconnectionAttempts' = 0
  /\ last' = Op("disconnect", ws # "null", 0, FALSE, "ok")
  /\ userDisconnected' = IF timers # EmptyBag THEN "waiting" ELSE "idle"
  /\ UNCHANGED <<orphans, timers, handlers, exhausted>>

\* mutant: the transport is closed before stop_session is sent
disconnectClosesFirst ==
  /\ intervals' = stopHeartbeat
  /\ heartbeatInterval' = FALSE
  /\ out' = (IF ws # "null"
             THEN <<Eff("close", 0, "Client disconnect", NormalClosure)>>
             ELSE <<>>)
            \o (IF ws # "null" /\ sessionId # 0
                THEN <<Eff("throw", 0, "WebSocket not connected", 0)>>
                ELSE <<>>)
  /\ orphans' = IF ws \in {"connecting", "open"}
                THEN [orphans EXCEPT !["closing"] = @ + 1] ELSE orphans
  /\ ws' = "null"
  /\ sessionId' = 0
  /\ reconnectionAttempts' = 0
  /\ last' = Op("disconnect", ws # "null", 0, FALSE, "ok")
  /\ userDisconnected' = IF timers # EmptyBag THEN "waiting" ELSE "idle"
  /\ UNCHANGED <<timers, handlers, exhausted>>

\* the caller invokes disconnect()
disconnect ==
  /\ intervals' = stopHeartbeat
  /\ heartbeatInterval' = FALSE
  /\ out' = (IF ws # "null" /\ sessionId # 0
             THEN sendMessage("stop_session", sessionId) ELSE <<>>)
            \o (IF ws # "null"
                THEN <<Eff("close", 0, "Client disconnect", NormalClosure)>>
                ELSE <<>>)
  /\ orphans' = IF ws \in {"connecting", "open"}
                THEN [orphans EXCEPT !["closing"] = @ + 1] ELSE orphans
  /\ ws' = "null"
  /\ sessionId' = 0
  /\ reconnectionAttempts' = 0
  /\ last' = Op("disconnect", ws # "null", 0, FALSE, "ok")
  /\ userDisconnected' = IF timers # EmptyBag THEN "waiting" ELSE "idle"
  /\ UNCHANGED <<timers, handlers, exhausted>>

\* the caller invokes startSession(data)
startSession ==
  /\ out' = IF isConnected THEN sendMessage("start_session", 0) ELSE <<>>
  /\ last' = Op("startSession", TRUE, 0, FALSE,
                IF isConnected THEN "ok" ELSE "WebSocket not connected")
  /\ UNCHANGED <<ws, orphans, sessionId, heartbeatInterval, intervals,
                 reconnectionAttempts, timers, handlers,
                 userDisconnected, exhausted>>

\* mutant: a chunk without audio is not sent
sendAudioChunkSkipsEmpty(audioData, sequenceNumber, timestamp) ==
  /\ out' = IF isConnected /\ audioData # <<>>
            THEN <<Eff("send", 0, "audio",
                       chunkMessage(audioData, sequenceNumber, timestamp))>>
            ELSE <<>>
  /\ last' = Op("sendAudioChunk", TRUE, 0, FALSE,
                IF isConnected THEN "ok" ELSE "WebSocket not connected")
  /\ UNCHANGED <<ws, orphans, sessionId, heartbeatInterval, intervals,
                 reconnectionAttempts, timers, handlers,
                 userDisconnected, exhausted>>

\* the caller invokes sendAudioChunk(audioData, sequenceNumber, timestamp)
sendAudioChunk(audioData, sequenceNumber, timestamp) ==
  /\ out' = IF isConnected
            THEN <<Eff("send", 0, "audio",
                       chunkMessage(audioData, sequenceNumber, timestamp))>>
            ELSE <<>>
  /\ last' = Op("sendAudioChunk", TRUE, 0, FALSE,
                IF isConnected THEN "ok" ELSE "WebSocket not connected")
  /\ UNCHANGED <<ws, orphans, sessionId, heartbeatInterval, intervals,
                 reconnectionAttempts, timers, handlers,
                 userDisconnected, exhausted>>

\* an active interval elapses: the callback startHeartbeat() gave setInterval
heartbeatTick ==
  /\ intervals > 0
  /\ out' = IF isConnected THEN sendMessage("ping", 0) ELSE <<>>
  /\ last' = Op("tick", TRUE, 0, FALSE, "ok")
  /\ UNCHANGED <<ws, orphans, sessionId, heartbeatInterval, intervals,
                 reconnectionAttempts, timers, handlers,
                 userDisconnected, exhausted>>

\* mutant: the switch hands error frames to the translation handlers
EventOfErrorAsTranslation(kind) ==
  CASE kind = "session_started" -> "sessionStarted"
    [] kind = "translation" -> "translation"
    [] kind = "error" -> "translation"
    [] OTHER -> "none"

\* mutant: the switch hands pong frames to the error handlers
EventOfPongAsError(kind) ==
  CASE kind = "session_started" -> "sessionStarted"
    [] kind = "translation" -> "translation"
    [] kind = "error" -> "error"
    [] kind = "pong" -> "error"
    [] OTHER -> "none"

\* switch (message.type): the handler list a message type selects
EventOf(kind) ==
  CASE kind = "session_started" -> "sessionStarted"
    [] kind = "translation" -> "translation"
    [] kind = "error" -> "error"
    [] OTHER -> "none"

\* the try block raises before any handler runs: JSON.parse rejects the
\* data (a Blob is parsed as the text "[object Blob]"), message is null, or
\* message.payload.sessionId is read from a message without payload
RaisesBeforeDispatch(kind, p) ==
  \/ kind \in {"blob", "invalid_json", "json_null"}
  \/ kind = "session_started" /\ p = NoPayload

Caught(t) == <<Eff("catch", t, "Failed to parse WebSocket message", 0)>>

\* ws.onmessage of an open transport: handleMessage(event) for a frame of
\* the given kind with payload p; t is the first handler that raises an
\* error in this run (0: every handler returns)
handleMessage(cur, kind, p, t) ==
  /\ IF cur THEN ws = "open" ELSE orphans["open"] > 0
  /\ LET evt == EventOf(kind)
         dispatched == kind # "binary" /\ evt # "none"
                         /\ ~RaisesBeforeDispatch(kind, p)
     IN
       /\ t <= (IF dispatched THEN handlers[evt] ELSE 0)
       /\ sessionId' = IF kind = "session_started" /\ p # NoPayload
                       THEN p ELSE sessionId
       /\ out' = IF dispatched
                 THEN IF t = 0 THEN Fire(evt, p)
                      ELSE SubSeq(Fire(evt, p), 1, t) \o Caught(t)
                 ELSE IF kind # "binary" /\ RaisesBeforeDispatch(kind, p)
                      THEN Caught(0) ELSE <<>>
  /\ last' = Op(kind, cur, p, FALSE, "ok")
  /\ UNCHANGED <<ws, orphans, heartbeatInterval, intervals,
                 reconnectionAttempts, timers, handlers,
                 userDisconnected, exhausted>>

Next ==
  \/ Connect /\ UNCHANGED rest
  \/ disconnect /\ UNCHANGED rest
  \/ startSession /\ UNCHANGED rest
  \/ sendAudioChunk(<<>>, Zero, Zero) /\ UNCHANGED rest
  \/ Register /\ UNCHANGED rest
  \/ \E cur \in BOOLEAN : onopen(cur) /\ UNCHANGED rest
  \/ \E cur \in BOOLEAN, st \in LiveStates, code \in CloseCodes :
       onclose(cur, st, code) /\ UNCHANGED rest
  \/ \E d \in BagToSet(timers) : TimerFire(d) /\ UNCHANGED rest
  \/ heartbeatTick /\ UNCHANGED rest
  \/ \E cur \in BOOLEAN, kind \in LifecycleKinds, sid \in SessionIds :
       /\ handleMessage(cur, kind,
                        IF kind = "session_started" THEN sid ELSE 0, 0)
       /\ UNCHANGED rest

Spec == Init /\ [][Next]_vars

(***************************************************************************)
(* Automatic reconnection on its own: one connect() by the caller, every   *)
(* transport ends in an abnormal closure (before or after it opened), and  *)
(* the caller calls neither connect() again nor disconnect().  Pending     *)
(* timeouts elapse, and every transport is eventually closed.              *)
(***************************************************************************)
ConnectOnce == ws = "null" /\ Chains = 0 /\ Connect /\ UNCHANGED rest

FailingClose ==
  /\ \E st \in {"connecting", "open"} : onclose(TRUE, st, AbnormalClosure)
  /\ UNCHANGED rest

TimeoutElapses ==
  /\ \E d \in BagToSet(timers) : TimerFire(d)
  /\ UNCHANGED rest

NextLive ==
  \/ ConnectOnce
  \/ Register /\ UNCHANGED rest
  \/ startSession /\ UNCHANGED rest
  \/ sendAudioChunk(<<>>, Zero, Zero) /\ UNCHANGED rest
  \/ onopen(TRUE) /\ UNCHANGED rest
  \/ FailingClose
  \/ TimeoutElapses
  \/ heartbeatTick /\ UNCHANGED rest
  \/ \E kind \in LifecycleKinds, sid \in SessionIds :
       /\ handleMessage(TRUE, kind,
                        IF kind = "session_started" THEN sid ELSE 0, 0)
       /\ UNCHANGED rest

LiveSpec == Init /\ [][NextLive]_vars
                 /\ WF_vars(TimeoutElapses) /\ WF_vars(FailingClose)

(***************************************************************************)
(* Inbound dispatch on its own: one connection, and the server sends       *)
(* frames of every kind, with and without payload.  Every handler returns. *)
(***************************************************************************)
NextDispatch ==
  \/ ConnectOnce
  \/ Register /\ UNCHANGED rest
  \/ onopen(TRUE) /\ UNCHANGED rest
  \/ FailingClose
  \/ TimeoutElapses
  \/ \E kind \in FrameKinds, p \in Payloads :
       /\ handleMessage(TRUE, kind,
                        IF EventOf(kind) # "none" THEN p ELSE NoPayload, 0)
       /\ UNCHANGED rest

DispatchSpec == Init /\ [][NextDispatch]_vars

(***************************************************************************)
(* Inbound dispatch with handlers that may raise an error: in each run of  *)
(* handleMessage any one of the registered handlers may be the first to    *)
(* raise.                                                                  *)
(***************************************************************************)
NextRaising ==
  \/ ConnectOnce
  \/ Register /\ UNCHANGED rest
  \/ onopen(TRUE) /\ UNCHANGED rest
  \/ FailingClose
  \/ TimeoutElapses
  \/ \E kind \in {"session_started", "translation", "error"},
        p \in Payloads, t \in 0..MaxHandlers :
       handleMessage(TRUE, kind, p, t) /\ UNCHANGED rest

RaisingSpec == Init /\ [][NextRaising]_vars

(***************************************************************************)
(* The popup, the content script with the useTranslation hook, and          *)
(* translationService on top of the client.  The server accepts the        *)
(* connection and may or may not answer start_session; the transport stays *)
(* open until the translation app is stopped.                              *)
(***************************************************************************)
client == <<ws, orphans, sessionId, heartbeatInterval, intervals,
            reconnectionAttempts, timers, handlers,
            last, out, userDisconnected, exhausted>>

\* the continuation of `await websocketClient.connect()` runs before any
\* other callback
NoContinuation == app.hook # "connected"

PopupOpen ==
  /\ app.popup = "closed"
  /\ app' = [app EXCEPT !.popup = "open"]
  /\ UNCHANGED <<client, io>>

\* the popup page goes away with its state, its timeouts and the calls
\* that were awaiting a response
PopupClose ==
  /\ app.popup = "open" /\ NoContinuation
  /\ app' = [app EXCEPT !.popup = "closed", !.isTranslating = FALSE,
                         !.statusMessage = "none", !.connectionTimeout = 0,
                         !.popupTimers = {}, !.running = <<>>,
                         !.requests = [i \in DOMAIN @ |-> FALSE],
                         !.responses = 0]
  /\ UNCHANGED <<client, io>>

\* Popup.handleStartTranslation up to `await chrome.tabs.sendMessage`
handleStartTranslation ==
  /\ app.popup = "open" /\ ~app.isTranslating /\ NoContinuation
  /\ app.handles < MaxStarts
  /\ LET timeout == app.handles + 1 IN
       app' = [app EXCEPT !.statusMessage = "starting",
                          !.isTranslating = TRUE,
                          !.handles = timeout,
                          !.popupTimers = @ \cup {timeout},
                          !.connectionTimeout = timeout,
                          !.running = Append(@, app.connectionTimeout),
                          !.requests = Append(@, TRUE)]
  /\ UNCHANGED <<client, io>>

\* Popup.handleStartTranslation after the response { success: true }:
\* clearTimeout of the connectionTimeout the call closed over
PopupResponse ==
  /\ app.popup = "open" /\ app.responses > 0 /\ app.running # <<>>
  /\ NoContinuation
  /\ LET closedOver == Head(app.running) IN
       app' = [app EXCEPT !.responses = @ - 1,
                          !.running = Tail(@),
                          !.popupTimers = @ \ {closedOver},
                          !.connectionTimeout =
                             IF closedOver # 0 THEN 0 ELSE @,
                          !.statusMessage = "active"]
  /\ UNCHANGED <<client, io>>

\* the popup's 5 s timeout elapses
PopupTimeout(h) ==
  /\ h \in app.popupTimers /\ NoContinuation
  /\ app' = [app EXCEPT !.popupTimers = @ \ {h},
                         !.statusMessage = "timeout",
                         !.isTranslating = FALSE,
                         !.shown = @ + 1]
  /\ UNCHANGED <<client, io>>

\* content script, START_TRANSLATION with no translation app mounted: the
\* app is rendered, useTranslation registers its handlers
ContentStart ==
  /\ app.requests # <<>> /\ app.hook = "unmounted"
  /\ Register
  /\ app' = [app EXCEPT !.requests = Tail(@),
                         !.responses = IF Head(app.requests) THEN @ + 1 ELSE @,
                         !.hook = "mounted"]
  /\ UNCHANGED io

\* content script, START_TRANSLATION with the translation app mounted
ContentStartAgain ==
  /\ app.requests # <<>> /\ app.hook # "unmounted" /\ NoContinuation
  /\ app' = [app EXCEPT !.requests = Tail(@),
                         !.responses = IF Head(app.requests) THEN @ + 1 ELSE @]
  /\ UNCHANGED <<client, io>>

\* useTranslation.startTranslation up to `await websocketClient.connect()`
startTranslation ==
  /\ app.hook = "mounted"
  /\ Connect
  /\ app' = [app EXCEPT !.hook = "connecting"]
  /\ UNCHANGED io

\* the transport opens and connect() resolves
Opened ==
  /\ app.hook = "connecting"
  /\ onopen(TRUE)
  /\ app' = [app EXCEPT !.hook = "connected", !.deadline = "running",
                         !.due = app.popupTimers]
  /\ UNCHANGED io

\* useTranslation.startTranslation after connect() resolved: startSession,
\* then translationService.initSession(clientId, ...)
startTranslationContinues ==
  /\ app.hook = "connected"
  /\ startSession
  /\ app' = [app EXCEPT !.hook = "translating", !.session = ClientId,
                         !.status = "active"]
  /\ UNCHANGED io

\* a session_started frame: the client's dispatch, then the handler of
\* useTranslation: translationService.updateStatus('active')
SessionStarted(sid) ==
  /\ app.hook = "translating"
  /\ handleMessage(TRUE, "session_started", sid, 0)
  /\ app' = [app EXCEPT !.status = IF app.session # 0 THEN "active" ELSE @,
                         !.deadline = IF @ = "running" THEN "met" ELSE @]
  /\ UNCHANGED io

\* a translation frame: the client's dispatch; every translation handler is
\* one that a mount of useTranslation registered, and calls
\* translationService.handleTranslationResponse(response)
Translation(p) ==
  /\ app.hook = "translating"
  /\ handleMessage(TRUE, "translation", p, 0)
  /\ UNCHANGED rest

\* 5 s have passed since the transport opened and no session_started came;
\* the popup timeouts set before it opened have elapsed by then
DeadlinePasses ==
  /\ app.deadline = "running" /\ NoContinuation
  /\ app.due \cap app.popupTimers = {}
  /\ app' = [app EXCEPT !.deadline = "passed"]
  /\ UNCHANGED <<client, io>>

\* useTranslation.stopTranslation: disconnect(), translationService.reset()
stopTranslation ==
  /\ app.hook = "translating"
  /\ disconnect
  /\ app' = [app EXCEPT !.hook = "unmounted", !.session = 0,
                         !.status = "none", !.deadline = "idle", !.due = {},
                         !.shown = 0]
  /\ UNCHANGED io

\* the transport disconnect() closed reports its closure
Closed ==
  /\ NoContinuation
  /\ onclose(FALSE, "closing", NormalClosure)
  /\ UNCHANGED rest

NextApp ==
  \/ PopupOpen
  \/ PopupClose
  \/ handleStartTranslation
  \/ PopupResponse
  \/ \E h \in 1..MaxStarts : PopupTimeout(h)
  \/ ContentStart
  \/ ContentStartAgain
  \/ startTranslation
  \/ Opened
  \/ startTranslationContinues
  \/ \E sid \in SessionIds : SessionStarted(sid)
  \/ \E p \in SessionIds : Translation(p)
  \/ DeadlinePasses
  \/ stopTranslation
  \/ Closed

AppSpec == Init /\ [][NextApp]_vars

(***************************************************************************)
(* The audio chunk functions on their own: the arguments are drawn once,   *)
(* createAudioChunk and parseAudioChunk are applied to them, and a         *)
(* connected client is handed the same arguments in sendAudioChunk.        *)
(***************************************************************************)
NoChunk == [ok |-> FALSE, error |-> "none"]

\* a blob with a sequence number and a timestamp
ChunkInputs ==
  [stage : {"input"}, audioData : Buffers(MaxPayloadLen),
   sequenceNumber : Numbers, timestamp : Numbers,
   buffer : {<<>>}, chunk : {NoChunk}]

\* a buffer of any length that did not come from createAudioChunk
RawInputs ==
  [stage : {"raw"}, audioData : {<<>>},
   sequenceNumber : {Zero}, timestamp : {Zero},
   buffer : Buffers(headerSize + MaxPayloadLen), chunk : {NoChunk}]

InitCodec == InitClient /\ app = AppInit /\ io \in ChunkInputs \cup RawInputs

Create ==
  /\ io.stage = "input"
  /\ io' = [io EXCEPT !.stage = "created",
                       !.buffer = createAudioChunk(io.audioData,
                                     io.sequenceNumber, io.timestamp)]
  /\ UNCHANGED <<client, app>>

Parse ==
  /\ io.stage \in {"created", "raw"}
  /\ io' = [io EXCEPT !.stage = IF @ = "raw" THEN "rawParsed" ELSE "parsed",
                       !.chunk = parseAudioChunk(io.buffer)]
  /\ UNCHANGED <<client, app>>

Send ==
  /\ io.stage = "input"
  /\ sendAudioChunk(io.audioData, io.sequenceNumber, io.timestamp)
  /\ UNCHANGED rest

NextCodec ==
  \/ Create
  \/ Parse
  \/ ConnectOnce
  \/ onopen(TRUE) /\ UNCHANGED rest
  \/ Send

CodecSpec == InitCodec /\ [][NextCodec]_vars

(***************************************************************************)
(* A client that is sent audio: every sendAudioChunk call made while       *)
(* this.ws is open is logged with the frames the transports were handed.   *)
(***************************************************************************)
\* 0, 1, 2^32 - 1 and 2^32
AudioSeqs == {Zero, [hi |-> 0, lo |-> 1], [hi |-> 65535, lo |-> 65535],
              [hi |-> 65536, lo |-> 0]}

\* the binary frames among the effects o, in the order they were sent
Handed(o) ==
  LET sent == SelectSeq(o, LAMBDA e : e.k = "send" /\ e.m = "audio")
  IN [i \in 1..Len(sent) |-> sent[i].v]

InitAudio ==
  /\ InitClient /\ app = AppInit
  /\ io = [stage |-> "log", calls |-> <<>>, wire |-> <<>>]

SendChunk(audioData, sequenceNumber, timestamp) ==
  /\ Len(io.calls) < MaxCalls
  /\ sendAudioChunk(audioData, sequenceNumber, timestamp)
  /\ io' = [io EXCEPT
              !.calls = IF isConnected
                        THEN Append(@, [audioData |-> audioData,
                                        sequenceNumber |-> sequenceNumber,
                                        timestamp |-> timestamp])
                        ELSE @,
              !.wire = @ \o Handed(out')]
  /\ UNCHANGED app

NextAudio ==
  \/ ConnectOnce
  \/ onopen(TRUE) /\ UNCHANGED rest
  \/ FailingClose
  \/ TimeoutElapses
  \/ heartbeatTick /\ UNCHANGED rest
  \/ \E audioData \in Buffers(1), sequenceNumber \in AudioSeqs :
       SendChunk(audioData, sequenceNumber, Zero)

AudioSpec == InitAudio /\ [][NextAudio]_vars

(***************************************************************************)
(* validateChunkSequence on its own: a list of chunks is drawn once and    *)
(* the function is applied to it.  Only the sequence number of a chunk is  *)
(* read.                                                                   *)
(***************************************************************************)
\* 0, 1, 65535 and 65536 as sequence numbers
ChunkSeqs == {Zero, [hi |-> 0, lo |-> 1], [hi |-> 0, lo |-> 65535],
              [hi |-> 1, lo |-> 0]}

ChunkLists ==
  UNION {[1..n -> [sequenceNumber : ChunkSeqs]] : n \in 0..MaxChunks}

\* the loop from index i on (the code's i - 1): false at the first chunk
\* whose number is <= the one before it
RECURSIVE validateFrom(_, _)
validateFrom(chunks, i) ==
  IF i > Len(chunks) THEN TRUE
  ELSE LET a == chunks[i].sequenceNumber
           b == chunks[i - 1].sequenceNumber
       IN IF a.hi < b.hi \/ (a.hi = b.hi /\ a.lo <= b.lo)
          THEN FALSE
          ELSE validateFrom(chunks, i + 1)

\* the comparison with < where the code has <=
validateChunkSequenceNonStrict(chunks) ==
  \A i \in 2..Len(chunks) :
    LET a == chunks[i].sequenceNumber
        b == chunks[i - 1].sequenceNumber
    IN ~(a.hi < b.hi \/ (a.hi = b.hi /\ a.lo < b.lo))

validateChunkSequence(chunks) ==
  IF Len(chunks) = 0 THEN TRUE ELSE validateFrom(chunks, 2)

InitChunks ==
  /\ InitClient /\ app = AppInit
  /\ io \in [stage : {"chunks"}, chunks : ChunkLists,
             given : {<<>>}, result : {FALSE}]

\* io.given is the list as it was at the call, io.chunks the caller's list
\* after it
Validate ==
  /\ io.stage = "chunks"
  /\ io' = [io EXCEPT !.stage = "validated",
                       !.given = io.chunks,
                       !.result = validateChunkSequence(io.chunks)]
  /\ UNCHANGED <<client, app>>

NextChunks == Validate

ChunksSpec == InitChunks /\ [][NextChunks]_vars

(***************************************************************************)
(* The useAudioCapture hook with the audioCapture service.  startCapture   *)
(* is a useCallback: the function a render returns closes over that        *)
(* render's sequenceNumber and chunkCallback, and the chunk handler it     *)
(* registers closes over the same values for as long as it is registered.  *)
(* The caller starts a capture only while none is running.                 *)
(***************************************************************************)
\* the hook after its first render, with the caller holding the functions
\* that render returned
InitCapture ==
  /\ InitClient /\ app = AppInit
  /\ io = [stage |-> "capture",
           sequenceNumber |-> 0,      \* useState(0)
           chunkCallback |-> FALSE,   \* useState(null): a callback is set
           startCapture |-> [sequenceNumber |-> 0, chunkCallback |-> FALSE],
           chunkHandlers |-> <<>>,    \* audioCapture.chunkHandlers
           recording |-> FALSE,       \* recorder.state = 'recording'
           assigned |-> <<>>,         \* numbers given to createAudioChunk
                                      \* since the last startCapture
           emitted |-> <<>>]          \* numbers given to chunkCallback

\* the caller takes the startCapture of the latest render
Render ==
  /\ io.stage = "capture"
  /\ io.startCapture # [sequenceNumber |-> io.sequenceNumber,
                        chunkCallback |-> io.chunkCallback]
  /\ io' = [io EXCEPT !.startCapture =
                         [sequenceNumber |-> io.sequenceNumber,
                          chunkCallback |-> io.chunkCallback]]
  /\ UNCHANGED <<client, app>>

onAudioChunk ==
  /\ io.stage = "capture" /\ ~io.chunkCallback
  /\ io' = [io EXCEPT !.chunkCallback = TRUE]
  /\ UNCHANGED <<client, app>>

startCapture ==
  /\ io.stage = "capture" /\ ~io.recording
  /\ io' = [io EXCEPT !.sequenceNumber = 0,
                       !.chunkHandlers = Append(@, io.startCapture),
                       !.recording = TRUE,
                       !.assigned = <<>>,
                       !.emitted = <<>>]
  /\ UNCHANGED <<client, app>>

\* the numbers the registered handlers take for one blob, in order
RECURSIVE currentSeqs(_)
currentSeqs(hs) ==
  IF hs = <<>> THEN <<>>
  ELSE <<Head(hs).sequenceNumber>> \o currentSeqs(Tail(hs))

\* recorder.ondataavailable with a blob that is not empty
ondataavailable ==
  /\ io.stage = "capture" /\ io.recording
  /\ Len(io.assigned) < MaxBlobs
  /\ io' = [io EXCEPT
              !.sequenceNumber = @ + Len(io.chunkHandlers),
              !.assigned = @ \o currentSeqs(io.chunkHandlers),
              !.emitted = @ \o currentSeqs(
                             SelectSeq(io.chunkHandlers,
                                       LAMBDA h : h.chunkCallback))]
  /\ UNCHANGED <<client, app>>

stopCapture ==
  /\ io.stage = "capture"
  /\ io' = [io EXCEPT !.sequenceNumber = 0,
                       !.chunkHandlers = <<>>,
                       !.recording = FALSE]
  /\ UNCHANGED <<client, app>>

NextCapture ==
  \/ Render
  \/ onAudioChunk
  \/ startCapture
  \/ ondataavailable
  \/ stopCapture

CaptureSpec == InitCapture /\ [][NextCapture]_vars

(***************************************************************************)
(* translationService (TranslationServiceClass) on its own: its session,   *)
(* its latency samples and its result handlers, under any order of calls   *)
(* of its methods.  Every onTranslationResult call registers a handler of  *)
(* its own, named by the number of the registration; handlers return.      *)
(* `now` is what new Date() reads; it moves on between calls.              *)
(***************************************************************************)
Languages == {"en", "ja"}
Statuses == {"idle", "connecting", "active", "error", "disconnected"}
ServiceSessionIds == {1}

\* confidence in hundredths: just below the 0.6 of the filter, and 0.6
Confidences == {59, 60}
NoLatency == 0 - 1
Texts == {"a", "b"}
Responses ==
  [text : Texts, isFinal : BOOLEAN, confidence : Confidences,
   latency : {NoLatency, 0, 100}]

\* this.session = null
NoSession == [sessionId |-> 0]

NoCall ==
  [op |-> "none", arg |-> 0, threw |-> "none", invoked |-> <<>>,
   returned |-> 0, at |-> 0, session |-> NoSession, latencies |-> <<>>,
   resultHandlers |-> <<>>]

\* the call that ran last: its argument, the error it threw, the handlers it
\* invoked in order, what it returned, the time it ran at, and the fields as
\* they were before it
Call(op, arg, threw, invoked, returned) ==
  [op |-> op, arg |-> arg, threw |-> threw, invoked |-> invoked,
   returned |-> returned, at |-> io.now, session |-> io.session,
   latencies |-> io.latencies, resultHandlers |-> io.resultHandlers]

ServiceInit ==
  [stage |-> "service",
   session |-> NoSession,
   latencies |-> <<>>,
   resultHandlers |-> <<>>,
   registered |-> 0,     \* onTranslationResult calls so far
   cleared |-> 0,        \* of these, the ones made before the last reset()
   now |-> 0,
   call |-> NoCall]

InitService == InitClient /\ app = AppInit /\ io = ServiceInit

Tick ==
  /\ io.stage = "service" /\ io.now < MaxClock
  /\ io' = [io EXCEPT !.now = @ + 1]
  /\ UNCHANGED <<client, app>>

initSession(sid, sourceLanguage, targetLanguage) ==
  /\ io.stage = "service"
  /\ io' = [io EXCEPT
              !.session = [sessionId |-> sid,
                           sourceLanguage |-> sourceLanguage,
                           targetLanguage |-> targetLanguage,
                           status |-> "active",
                           createdAt |-> io.now,
                           lastActivityAt |-> io.now],
              !.latencies = <<>>,
              !.call = Call("initSession",
                            [sessionId |-> sid,
                             sourceLanguage |-> sourceLanguage,
                             targetLanguage |-> targetLanguage],
                            "none", <<>>, 0)]
  /\ UNCHANGED <<client, app>>

getSession ==
  /\ io.stage = "service"
  /\ io' = [io EXCEPT !.call = Call("getSession", 0, "none", <<>>, io.session)]
  /\ UNCHANGED <<client, app>>

\* mutant: the session counts as created anew at every status change
updateStatusRestarts(status) ==
  /\ io.stage = "service"
  /\ io' = [io EXCEPT
              !.session =
                 IF io.session # NoSession
                 THEN [@ EXCEPT !.status = status, !.createdAt = io.now,
                                !.lastActivityAt = io.now]
                 ELSE @,
              !.call = Call("updateStatus", status, "none", <<>>, 0)]
  /\ UNCHANGED <<client, app>>

\* a status is taken only if it follows the current one in the data model
updateStatusChecked(status) ==
  /\ io.stage = "service"
  /\ io' = [io EXCEPT
              !.session =
                 IF io.session # NoSession
                    /\ <<io.session.status, status>> \in
                         {<<"idle", "connecting">>, <<"connecting", "active">>,
                          <<"connecting", "error">>, <<"active", "error">>,
                          <<"active", "disconnected">>,
                          <<"error", "connecting">>,
                          <<"disconnected", "connecting">>}
                 THEN [@ EXCEPT !.status = status, !.lastActivityAt = io.now]
                 ELSE @,
              !.call = Call("updateStatus", status, "none", <<>>, 0)]
  /\ UNCHANGED <<client, app>>

updateStatus(status) ==
  /\ io.stage = "service"
  /\ io' = [io EXCEPT
              !.session =
                 IF io.session # NoSession
                 THEN [@ EXCEPT !.status = status, !.lastActivityAt = io.now]
                 ELSE @,
              !.call = Call("updateStatus", status, "none", <<>>, 0)]
  /\ UNCHANGED <<client, app>>

\* the result every handler in hs is called with, in the order of hs
Emit(hs, result) == [i \in 1..Len(hs) |-> [handler |-> hs[i], result |-> result]]

\* `if (response.latency)`: the field is there and is not 0
Truthy(latency) == latency # NoLatency /\ latency # 0

\* the filter lets an interim result of confidence 0.6 through no more
handleTranslationResponseFilterAtThreshold(response) ==
  /\ io.stage = "service"
  /\ Truthy(response.latency) => Len(io.latencies) < MaxSamples
  /\ io' =
       IF io.session = NoSession
       THEN [io EXCEPT !.call = Call("handleTranslationResponse", response,
                                     "No active translation session", <<>>, 0)]
       ELSE [io EXCEPT
               !.session.lastActivityAt = io.now,
               !.latencies = IF Truthy(response.latency)
                             THEN Append(@, response.latency) ELSE @,
               !.call = Call("handleTranslationResponse", response, "none",
                             IF ~response.isFinal /\ response.confidence <= 60
                             THEN <<>>
                             ELSE Emit(io.resultHandlers,
                                       [text |-> response.text,
                                        isFinal |-> response.isFinal,
                                        confidence |-> response.confidence]),
                             0)]
  /\ UNCHANGED <<client, app>>

\* without a session the response is dropped and nothing is thrown
handleTranslationResponseNoThrow(response) ==
  /\ io.stage = "service"
  /\ Truthy(response.latency) => Len(io.latencies) < MaxSamples
  /\ io' =
       IF io.session = NoSession
       THEN [io EXCEPT !.call = Call("handleTranslationResponse", response,
                                     "none", <<>>, 0)]
       ELSE [io EXCEPT
               !.session.lastActivityAt = io.now,
               !.latencies = IF Truthy(response.latency)
                             THEN Append(@, response.latency) ELSE @,
               !.call = Call("handleTranslationResponse", response, "none",
                             IF ~response.isFinal /\ response.confidence < 60
                             THEN <<>>
                             ELSE Emit(io.resultHandlers,
                                       [text |-> response.text,
                                        isFinal |-> response.isFinal,
                                        confidence |-> response.confidence]),
                             0)]
  /\ UNCHANGED <<client, app>>

handleTranslationResponse(response) ==
  /\ io.stage = "service"
  /\ Truthy(response.latency) => Len(io.latencies) < MaxSamples
  /\ io' =
       IF io.session = NoSession
       THEN [io EXCEPT !.call = Call("handleTranslationResponse", response,
                                     "No active translation session", <<>>, 0)]
       ELSE [io EXCEPT
               !.session.lastActivityAt = io.now,
               !.latencies = IF Truthy(response.latency)
                             THEN Append(@, response.latency) ELSE @,
               !.call = Call("handleTranslationResponse", response, "none",
                             IF ~response.isFinal /\ response.confidence < 60
                             THEN <<>>
                             ELSE Emit(io.resultHandlers,
                                       [text |-> response.text,
                                        isFinal |-> response.isFinal,
                                        confidence |-> response.confidence]),
                             0)]
  /\ UNCHANGED <<client, app>>

onTranslationResult ==
  /\ io.stage = "service" /\ io.registered < MaxResultHandlers
  /\ io' = [io EXCEPT
              !.resultHandlers = Append(@, io.registered + 1),
              !.registered = @ + 1,
              !.call = Call("onTranslationResult", io.registered + 1,
                            "none", <<>>, 0)]
  /\ UNCHANGED <<client, app>>

\* the handlers stay registered
resetKeepsHandlers ==
  /\ io.stage = "service"
  /\ io' = [io EXCEPT !.session = NoSession,
                       !.latencies = <<>>,
                       !.cleared = io.registered,
                       !.call = Call("reset", 0, "none", <<>>, 0)]
  /\ UNCHANGED <<client, app>>

reset ==
  /\ io.stage = "service"
  /\ io' = [io EXCEPT !.session = NoSession,
                       !.latencies = <<>>,
                       !.resultHandlers = <<>>,
                       !.cleared = io.registered,
                       !.call = Call("reset", 0, "none", <<>>, 0)]
  /\ UNCHANGED <<client, app>>

\* Array.prototype.sort with (a, b) => a - b on a copy: sample i goes
\* behind the smaller samples and the equal ones that arrived before it
sortAscending(samples) ==
  LET place(i) ==
        Cardinality({j \in DOMAIN samples : samples[j] < samples[i]})
        + Cardinality({j \in 1..(i - 1) : samples[j] = samples[i]}) + 1
  IN [k \in DOMAIN samples |->
        samples[CHOOSE i \in DOMAIN samples : place(i) = k]]

\* Math.floor(count * 0.5), Math.floor(count * 0.95), Math.floor(count * 0.99)
\* for p = 50, 95, 99: the double product count * 0.95 rounds to the integer
\* count * 95 / 100 whenever that is one, and is not within rounding of an
\* integer otherwise, so the floor is that of the exact quotient
percentileIndex(count, p) == (count * p) \div 100

\* the samples are indexed in the order they arrived
getLatencyMetricsUnsorted ==
  IF Len(io.latencies) = 0
  THEN [count |-> 0, p50 |-> 0, p95 |-> 0, p99 |-> 0]
  ELSE LET count == Len(io.latencies)
       IN [count |-> count,
           p50 |-> io.latencies[percentileIndex(count, 50) + 1],
           p95 |-> io.latencies[percentileIndex(count, 95) + 1],
           p99 |-> io.latencies[percentileIndex(count, 99) + 1]]

\* sorted[k] of the code is sorted[k + 1] here
getLatencyMetrics ==
  IF Len(io.latencies) = 0
  THEN [count |-> 0, p50 |-> 0, p95 |-> 0, p99 |-> 0]
  ELSE LET sorted == sortAscending(io.latencies)
           count == Len(sorted)
       IN [count |-> count,
           p50 |-> sorted[percentileIndex(count, 50) + 1],
           p95 |-> sorted[percentileIndex(count, 95) + 1],
           p99 |-> sorted[percentileIndex(count, 99) + 1]]

Metrics ==
  /\ io.stage = "service"
  /\ io' = [io EXCEPT !.call = Call("getLatencyMetrics", 0, "none", <<>>,
                                    getLatencyMetrics)]
  /\ UNCHANGED <<client, app>>

NextService ==
  \/ Tick
  \/ \E sid \in ServiceSessionIds, sourceLanguage, targetLanguage \in Languages :
       initSession(sid, sourceLanguage, targetLanguage)
  \/ getSession
  \/ \E status \in Statuses : updateStatus(status)
  \/ \E response \in Responses : handleTranslationResponse(response)
  \/ onTranslationResult
  \/ Metrics
  \/ reset

ServiceSpec == InitService /\ [][NextService]_vars

(***************************************************************************)
(* getLatencyMetrics on its own: a service whose session has received the  *)
(* samples drawn, among them the samples of the unit tests.                *)
(***************************************************************************)
LatencySamples == {100, 200, 300}
SampleLists == UNION {[1..n -> LatencySamples] : n \in 0..MaxMetricSamples}

TrackedLatencies == <<200, 300, 450, 250, 350>>
P50Latencies == <<100, 200, 300, 400, 500>>
P95Latencies == [i \in 1..100 |-> i * 10]

InitMetrics ==
  /\ InitClient /\ app = AppInit
  /\ \E samples \in SampleLists \cup
                      {TrackedLatencies, P50Latencies, P95Latencies} :
       io = [ServiceInit EXCEPT
               !.session = [sessionId |-> 1, sourceLanguage |-> "en",
                            targetLanguage |-> "ja", status |-> "active",
                            createdAt |-> 0, lastActivityAt |-> 0],
               !.latencies = samples]

NextMetrics == Metrics

MetricsSpec == InitMetrics /\ [][NextMetrics]_vars

(***************************************************************************)
(* A caller awaiting connect(): io.promise is the promise that one call    *)
(* returned, io.own whether this.ws is still the transport that call       *)
(* created; only the onopen of that transport calls the resolve of that    *)
(* promise, and nothing calls its reject once the transport exists.  The   *)
(* caller makes no other call.  A transport that is connecting opens or    *)
(* fails in the end, and pending timeouts elapse.                          *)
(***************************************************************************)
InitAwait ==
  /\ InitClient /\ app = AppInit
  /\ io = [stage |-> "await", promise |-> "none", own |-> FALSE]

AwaitConnect ==
  /\ io.stage = "await" /\ io.promise = "none"
  /\ Connect
  /\ io' = [io EXCEPT !.promise = "pending", !.own = TRUE]
  /\ UNCHANGED app

AwaitOpen ==
  /\ io.stage = "await"
  /\ onopen(TRUE)
  /\ io' = [io EXCEPT !.promise = IF io.own /\ @ = "pending"
                                  THEN "resolved" ELSE @]
  /\ UNCHANGED app

\* the transport closes before it opened
AwaitFail ==
  /\ io.stage = "await"
  /\ onclose(TRUE, "connecting", AbnormalClosure)
  /\ UNCHANGED rest

\* the open transport is lost
AwaitDrop ==
  /\ io.stage = "await"
  /\ onclose(TRUE, "open", AbnormalClosure)
  /\ UNCHANGED rest

\* the connect() of a reconnection has a promise of its own
AwaitTimeout ==
  /\ io.stage = "await"
  /\ \E d \in BagToSet(timers) : TimerFire(d)
  /\ io' = [io EXCEPT !.own = FALSE]
  /\ UNCHANGED app

NextAwait ==
  \/ AwaitConnect
  \/ AwaitOpen
  \/ AwaitFail
  \/ AwaitDrop
  \/ AwaitTimeout
  \/ Register /\ UNCHANGED rest
  \/ heartbeatTick /\ UNCHANGED rest
  \/ \E kind \in LifecycleKinds, sid \in SessionIds :
       /\ handleMessage(TRUE, kind,
                        IF kind = "session_started" THEN sid ELSE 0, 0)
       /\ UNCHANGED rest

AwaitSpec == InitAwait /\ [][NextAwait]_vars
                       /\ WF_vars(AwaitTimeout)
                       /\ WF_vars(AwaitOpen \/ AwaitFail)

(***************************************************************************)
(* From the recorder to the transport: a component that uses useTranslation *)
(* and useAudioCapture on the client, as TranslationApp does.  The         *)
(* functions a hook returns close over the state of the render that made   *)
(* them; io.held is the render whose functions the component calls.        *)
(* TranslationApp calls everything from its initialize effect, that is     *)
(* with the functions of its first render; a component may also take the   *)
(* functions of a later render.  The chunk handler runs in one step, from  *)
(* the blob to the transport.                                              *)
(***************************************************************************)
NoCallback == [set |-> FALSE, isConnected |-> FALSE]

InitPipeline ==
  /\ InitClient /\ app = AppInit
  /\ io = [stage |-> "pipeline",
           hook |-> "idle",          \* startTranslation: "idle", "connecting",
                                     \* "connected", "translating" (resolved)
           isConnected |-> FALSE,    \* useTranslation state isConnected
           sequenceNumber |-> 0,     \* useAudioCapture state sequenceNumber
           chunkCallback |-> NoCallback,  \* useAudioCapture state: whether a
                                     \* callback is set, and the isConnected
                                     \* its sendAudioChunk closed over
           held |-> [sequenceNumber |-> 0, chunkCallback |-> NoCallback,
                     isConnected |-> FALSE],
           chunkHandlers |-> <<>>,   \* audioCapture.chunkHandlers
           recording |-> FALSE,
           blob |-> <<>>,            \* the blob the recorder delivered last
           blobs |-> 0,              \* blobs delivered with the component
                                     \* initialized and the client connected
           calls |-> 0]              \* client sendAudioChunk calls for them

\* the component takes the functions of the latest render
PipeRender ==
  /\ io.stage = "pipeline"
  /\ LET latest == [sequenceNumber |-> io.sequenceNumber,
                    chunkCallback |-> io.chunkCallback,
                    isConnected |-> io.isConnected]
     IN /\ io.held # latest
        /\ io' = [io EXCEPT !.held = latest]
  /\ UNCHANGED <<client, app>>

\* useTranslation.startTranslation up to `await websocketClient.connect()`
PipeStartTranslation ==
  /\ io.stage = "pipeline" /\ io.hook = "idle"
  /\ Connect
  /\ io' = [io EXCEPT !.hook = "connecting"]
  /\ UNCHANGED app

\* the transport opens, connect() resolves, setIsConnected(true)
PipeOpened ==
  /\ io.stage = "pipeline" /\ io.hook = "connecting"
  /\ onopen(TRUE)
  /\ io' = [io EXCEPT !.hook = "connected", !.isConnected = TRUE]
  /\ UNCHANGED app

\* startSession, initSession, and startTranslation resolves
PipeSessionStart ==
  /\ io.stage = "pipeline" /\ io.hook = "connected"
  /\ startSession
  /\ io' = [io EXCEPT !.hook = "translating"]
  /\ UNCHANGED app

\* useAudioCapture.startCapture of the render held
PipeStartCapture ==
  /\ io.stage = "pipeline" /\ ~io.recording /\ io.hook # "connected"
  /\ io' = [io EXCEPT
              !.sequenceNumber = 0,
              !.chunkHandlers =
                 Append(@, [sequenceNumber |-> io.held.sequenceNumber,
                            chunkCallback |-> io.held.chunkCallback]),
              !.recording = TRUE]
  /\ UNCHANGED <<client, app>>

\* onAudioChunk((chunk, sequenceNumber, timestamp) => sendAudioChunk(...))
\* with the sendAudioChunk of the render held
PipeOnAudioChunk ==
  /\ io.stage = "pipeline" /\ io.hook # "connected"
  /\ io.chunkCallback # [set |-> TRUE, isConnected |-> io.held.isConnected]
  /\ io' = [io EXCEPT !.chunkCallback =
                         [set |-> TRUE, isConnected |-> io.held.isConnected]]
  /\ UNCHANGED <<client, app>>

\* the number n as a JavaScript number
Num(n) == [hi |-> 0, lo |-> n]

\* recorder.ondataavailable with a blob that is not empty: the chunk handler
\* of useAudioCapture, the callback, useTranslation.sendAudioChunk and
\* websocketClient.sendAudioChunk
PipeData(blob, timestamp) ==
  /\ io.stage = "pipeline" /\ io.recording /\ io.hook # "connected"
  /\ io.sequenceNumber < MaxBlobs
  /\ LET h == io.chunkHandlers[1]
         currentSeq == Num(h.sequenceNumber)
         chunkWithHeader == createAudioChunk(blob, currentSeq, timestamp)
         \* the callback is set and its sendAudioChunk does not throw
         \* 'Not connected to translation server'
         passed == h.chunkCallback.set /\ h.chunkCallback.isConnected
         counted == io.hook = "translating" /\ io.chunkCallback.set
                    /\ isConnected
     IN /\ IF passed
           THEN sendAudioChunk(chunkWithHeader, currentSeq, timestamp)
           ELSE UNCHANGED client
        /\ io' = [io EXCEPT
                    !.sequenceNumber = @ + 1,
                    !.blob = blob,
                    !.blobs = IF counted THEN @ + 1 ELSE @,
                    !.calls = IF counted /\ passed THEN @ + 1 ELSE @]
  /\ UNCHANGED app

NextPipeline ==
  \/ PipeRender
  \/ PipeStartTranslation
  \/ PipeOpened
  \/ PipeSessionStart
  \/ PipeStartCapture
  \/ PipeOnAudioChunk
  \/ \E blob \in Buffers(1) \ {<<>>},
        timestamp \in {Zero, [hi |-> 65536, lo |-> 0]} :
       PipeData(blob, timestamp)

PipelineSpec == InitPipeline /\ [][NextPipeline]_vars

(***************************************************************************)
(* adService.  displayAd is an async function: it runs from its first line *)
(* to `await Promise.race(...)` without interruption, and the rest of it   *)
(* runs in a later turn, when the load or the 3 s timeout has settled the  *)
(* race.  Other calls start and resume in between.  The load times, which  *)
(* no condition reads, are left out.                                       *)
(***************************************************************************)
Zones == {"zone-123", "zone-456"}

\* how the race of one displayAd call is settled
RaceOutcomes == {"loaded", "rejected", "timeout"}

\* the singleton after construction; window.PropellerAds is defined or not
InitAd ==
  /\ InitClient /\ app = AppInit
  /\ io \in [stage : {"ad"},
             window : BOOLEAN,          \* window.PropellerAds is defined
             sdkLoaded : {FALSE},
             adBlocked : {FALSE},
             activeDisplays : {{}},
             metrics : {[attemptsTotal |-> 0, attemptsSuccess |-> 0,
                         attemptsFailed |-> 0]},
             loads : {<<>>},            \* zones loadAdContent was called for
             calls : {<<>>}]            \* the displayAd calls, in call order

\* initialize(), with the script's onload, its onerror or the 5 s timeout
initialize(outcome) ==
  /\ io.stage = "ad"
  /\ IF io.sdkLoaded THEN UNCHANGED io
     ELSE IF io.window THEN io' = [io EXCEPT !.sdkLoaded = TRUE]
     ELSE IF outcome = "onload"
     THEN io' = [io EXCEPT !.sdkLoaded = TRUE, !.adBlocked = FALSE,
                           !.window = TRUE]
     ELSE io' = [io EXCEPT !.sdkLoaded = FALSE, !.adBlocked = TRUE]
  /\ UNCHANGED <<client, app>>

\* the calls that have reached the await and not resumed
Awaiting == {i \in DOMAIN io.calls : io.calls[i].pc = "await"}

\* displayAd from its first line to the await, or to its return when it
\* returns before the await
displayAd(zoneId) ==
  /\ io.stage = "ad"
  /\ Len(io.calls) < MaxAdCalls
  /\ LET counted == [io.metrics EXCEPT !.attemptsTotal = @ + 1]
         call(pc, result) == [zoneId |-> zoneId, pc |-> pc,
                              result |-> result, during |-> Awaiting]
     IN IF zoneId \in io.activeDisplays
        THEN io' = [io EXCEPT !.metrics = counted,
                              !.calls = Append(@, call("done", FALSE))]
        ELSE IF ~io.sdkLoaded \/ ~io.window
        THEN io' = [io EXCEPT
                      !.metrics = [counted EXCEPT !.attemptsFailed = @ + 1],
                      !.calls = Append(@, call("done", FALSE))]
        ELSE io' = [io EXCEPT !.metrics = counted,
                              !.loads = Append(@, zoneId),
                              !.calls = Append(@, call("await", FALSE))]
  /\ UNCHANGED <<client, app>>

\* the rest of displayAd call i, after the race has settled
displayAdResume(i, outcome) ==
  /\ io.stage = "ad"
  /\ i \in Awaiting
  /\ IF outcome = "loaded"
     THEN io' = [io EXCEPT
                   !.activeDisplays = @ \cup {io.calls[i].zoneId},
                   !.metrics.attemptsSuccess = @ + 1,
                   !.calls[i].pc = "done",
                   !.calls[i].result = TRUE]
     ELSE io' = [io EXCEPT
                   !.metrics.attemptsFailed = @ + 1,
                   !.adBlocked = IF outcome = "timeout" THEN TRUE ELSE @,
                   !.calls[i].pc = "done",
                   !.calls[i].result = FALSE]
  /\ UNCHANGED <<client, app>>

destroy ==
  /\ io.stage = "ad"
  /\ io' = [io EXCEPT !.activeDisplays = {}]
  /\ UNCHANGED <<client, app>>

NextAd ==
  \/ \E outcome \in {"onload", "onerror", "timeout"} : initialize(outcome)
  \/ \E zoneId \in Zones : displayAd(zoneId)
  \/ \E i \in 1..MaxAdCalls, outcome \in RaceOutcomes :
       displayAdResume(i, outcome)
  \/ destroy

AdSpec == InitAd /\ [][NextAd]_vars

(***************************************************************************)
(* TranslationOverlay.  The mousemove and mouseup listeners are on the     *)
(* document while a drag or a resize is under way, and the effect that     *)
(* adds them runs again after every state change, so handleMouseMove works *)
(* on the state of the latest render.  The pointer is pressed on a point   *)
(* of the header or of a handle and then moves anywhere, also to points    *)
(* outside the viewport, where the document still gets the events while    *)
(* the button is down.  The onSizeChange and onPositionChange props are    *)
(* not given.                                                              *)
(***************************************************************************)
\* window.innerWidth and window.innerHeight of the page
innerWidth == 1280
innerHeight == 720

\* where the pointer goes
MouseXs == {0 - 500, 0, 640, innerWidth - 1}
MouseYs == {0 - 500, 0, 360, innerHeight - 1}

ResizeHandles == {"nw", "ne", "sw", "se", "n", "s", "w", "e"}

\* resizeHandle.includes(c)
includes(resizeHandle, c) ==
  CASE c = "e" -> resizeHandle \in {"e", "ne", "se"}
    [] c = "w" -> resizeHandle \in {"w", "nw", "sw"}
    [] c = "s" -> resizeHandle \in {"s", "sw", "se"}
    [] c = "n" -> resizeHandle \in {"n", "nw", "ne"}

Max(a, b) == IF a >= b THEN a ELSE b

\* the component after its first render with the default props
InitOverlay ==
  /\ InitClient /\ app = AppInit
  /\ io = [stage |-> "overlay",
           width |-> 400, height |-> 300,
           x |-> innerWidth - 420, y |-> 16,
           isDragging |-> FALSE, isResizing |-> FALSE,
           resizeHandle |-> "",
           dragStartPos |-> [x |-> 0, y |-> 0, overlayX |-> 0, overlayY |-> 0],
           resizeStartPos |-> [x |-> 0, y |-> 0, width |-> 0, height |-> 0,
                               overlayX |-> 0, overlayY |-> 0],
           moves |-> 0]

\* the points of a handle the pointer is pressed on: the first and the
\* last pixel of its box.  The corner handles nw, ne and sw are 12 px
\* squares centred on their corner, se is a 16 px square inside its
\* corner, the edge handles are 8 px deep, inside the edge at its middle.
HandlePoints(handle) ==
  LET l == io.x  r == io.x + io.width  t == io.y  b == io.y + io.height
      cx == io.x + io.width \div 2  cy == io.y + io.height \div 2
  IN CASE handle = "nw" -> {<<l - 6, t - 6>>, <<l + 5, t + 5>>}
       [] handle = "ne" -> {<<r - 6, t - 6>>, <<r + 5, t + 5>>}
       [] handle = "sw" -> {<<l - 6, b - 6>>, <<l + 5, b + 5>>}
       [] handle = "se" -> {<<r - 16, b - 16>>, <<r - 1, b - 1>>}
       [] handle = "n" -> {<<cx, t>>, <<cx, t + 7>>}
       [] handle = "s" -> {<<cx, b - 8>>, <<cx, b - 1>>}
       [] handle = "w" -> {<<l, cy>>, <<l + 7, cy>>}
       [] handle = "e" -> {<<r - 8, cy>>, <<r - 1, cy>>}

\* mousedown on the header, at its top left corner
handleDragStart ==
  /\ io.stage = "overlay"
  /\ io' = [io EXCEPT !.isDragging = TRUE,
                       !.dragStartPos = [x |-> io.x, y |-> io.y,
                                         overlayX |-> io.x,
                                         overlayY |-> io.y]]
  /\ UNCHANGED <<client, app>>

\* mousedown on a resize handle
handleResizeStart(clientX, clientY, handle) ==
  /\ io.stage = "overlay"
  /\ io' = [io EXCEPT !.isResizing = TRUE,
                       !.resizeHandle = handle,
                       !.resizeStartPos = [x |-> clientX, y |-> clientY,
                                           width |-> io.width,
                                           height |-> io.height,
                                           overlayX |-> io.x,
                                           overlayY |-> io.y]]
  /\ UNCHANGED <<client, app>>

\* what the isDragging branch gives to setX and setY
Dragged(clientX, clientY) ==
  LET deltaX == clientX - io.dragStartPos.x
      deltaY == clientY - io.dragStartPos.y
  IN [x |-> Max(0, Min(io.dragStartPos.overlayX + deltaX,
                       innerWidth - io.width)),
      y |-> Max(0, Min(io.dragStartPos.overlayY + deltaY,
                       innerHeight - io.height))]

\* what the isResizing branch gives to setWidth, setHeight, setX and setY
Resized(clientX, clientY) ==
  LET start == io.resizeStartPos
      deltaX == clientX - start.x
      deltaY == clientY - start.y
      w1 == IF includes(io.resizeHandle, "w") THEN start.width - deltaX
            ELSE IF includes(io.resizeHandle, "e") THEN start.width + deltaX
            ELSE io.width
      h1 == IF includes(io.resizeHandle, "n") THEN start.height - deltaY
            ELSE IF includes(io.resizeHandle, "s") THEN start.height + deltaY
            ELSE io.height
      newWidth == Max(MIN_WIDTH, Min(MAX_WIDTH, w1))
      newHeight == Max(MIN_HEIGHT, Min(MAX_HEIGHT, h1))
  IN [width |-> newWidth, height |-> newHeight,
      x |-> IF includes(io.resizeHandle, "w")
            THEN start.overlayX + (start.width - newWidth) ELSE io.x,
      y |-> IF includes(io.resizeHandle, "n")
            THEN start.overlayY + (start.height - newHeight) ELSE io.y]

\* mousemove on the document; the setters of the isResizing branch are
\* called after those of the isDragging branch
handleMouseMove(clientX, clientY) ==
  /\ io.stage = "overlay"
  /\ io.isDragging \/ io.isResizing
  /\ io.moves < MaxMoves
  /\ LET d == IF io.isDragging THEN Dragged(clientX, clientY)
              ELSE [x |-> io.x, y |-> io.y]
         r == IF io.isResizing THEN Resized(clientX, clientY)
              ELSE [width |-> io.width, height |-> io.height,
                    x |-> d.x, y |-> d.y]
     IN io' = [io EXCEPT !.width = r.width, !.height = r.height,
                         !.x = r.x, !.y = r.y,
                         !.moves = @ + 1]
  /\ UNCHANGED <<client, app>>

\* mouseup on the document
handleMouseUp ==
  /\ io.stage = "overlay"
  /\ io.isDragging \/ io.isResizing
  /\ io' = [io EXCEPT !.isDragging = FALSE, !.isResizing = FALSE,
                       !.resizeHandle = ""]
  /\ UNCHANGED <<client, app>>

NextOverlay ==
  \/ handleDragStart
  \/ \E handle \in ResizeHandles :
       \E p \in HandlePoints(handle) : handleResizeStart(p[1], p[2], handle)
  \/ \E clientX \in MouseXs, clientY \in MouseYs :
       handleMouseMove(clientX, clientY)
  \/ handleMouseUp

OverlaySpec == InitOverlay /\ [][NextOverlay]_vars

\* ------------------------------------------------------------------------
\* helpers of the properties

\* the client state, without the bookkeeping of the last operation
prog == <<ws, orphans, sessionId, heartbeatInterval, intervals,
          reconnectionAttempts, timers, handlers>>

AbnormalClose == last.op = "close" /\ last.code # NormalClosure

Called == <<Eff("call", 0, "attemptReconnection", 0)>>

Scheduled(d) == <<Eff("setTimeout", 0, "connect", d)>>

NoneOf(kind) == \A i \in DOMAIN out : out[i].k # kind

\* the reconnection policy ran in the last callback
PolicyStarted == out # <<>> /\ out[1] = Called[1]

\* the retry counter changes only in onopen, onclose and disconnect(); onopen
\* and disconnect() set it to 0 and a closure with code 1000 leaves it alone
CounterFrame ==
  /\ last.op \notin {"open", "close", "disconnect"} => reconnectionAttempts = last.att
  /\ last.op \in {"open", "disconnect"} => reconnectionAttempts = 0
  /\ last.op = "close" /\ last.code = NormalClosure => reconnectionAttempts = last.att

\* the delays the policy promises for the 1st, 2nd and 3rd closure
Schedule == <<1000, 2000, 4000>>

\* ------------------------------------------------------------------------
\* C1: an abnormal closure with the retry counter at 3 fires every
\* onMaxRetriesReached handler and no onReconnecting handler, and from then
\* on no automatic connect attempt is scheduled until the caller invokes
\* connect() again.
C1_MaxRetriesStops ==
  /\ AbnormalClose /\ last.att >= maxRetries =>
       out = Called \o Fire("maxRetries", 0)
  /\ exhausted => NoneOf("setTimeout")

\* C2: counted from a retry counter of 0 (the counter changes only as
\* CounterFrame says, so it counts the abnormal closures since the last
\* reset), the k-th abnormal closure, k = 1, 2, 3, makes the counter k, fires
\* every onReconnecting handler once and then schedules connect() after
\* 1000, 2000 and 4000 ms.
C2_BackoffSchedule ==
  /\ CounterFrame
  /\ AbnormalClose /\ last.att < maxRetries =>
       /\ reconnectionAttempts = last.att + 1
       /\ out = Called \o Fire("reconnecting", 0)
                  \o Scheduled(Schedule[last.att + 1])
       /\ BagIn(Schedule[last.att + 1], timers)

C2_Witness ==
  /\ AbnormalClose /\ last.att = 2
  /\ handlers["reconnecting"] = MaxHandlers
  /\ BagIn(4000, timers)

C4_DisconnectCancelsWait ==
  userDisconnected = "waiting" => last.op # "timer" /\ ws = "null"

\* C5: a closure starts the reconnection policy if and only if disconnect()
\* did not request it.
C5_PolicyIffNotRequested ==
  last.op = "close" => (PolicyStarted <=> ~last.req)

\* C6: right after a transport opens the retry counter is 0, it stays 0 until
\* the next abnormal closure (CounterFrame), and an abnormal closure that
\* finds the counter at 0 schedules the reconnect after 1000 ms.
C6_OpenResetsCounter ==
  /\ last.op = "open" => reconnectionAttempts = 0
  /\ CounterFrame
  /\ AbnormalClose /\ last.att = 0 =>
       /\ reconnectionAttempts = 1
       /\ out[Len(out)] = Scheduled(initialDelayMs)[1]

C6_Witness == last.op = "open" /\ last.att = maxRetries /\ reconnectionAttempts = 0

\* C7: startSession and sendAudioChunk called while this.ws is not an open
\* transport fail with 'WebSocket not connected' and send nothing.
C7_NotConnectedFailsFast ==
  last.op \in {"startSession", "sendAudioChunk"} /\ ~last.conn =>
    last.res = "WebSocket not connected" /\ out = <<>>

C7_Witness ==
  /\ last.op = "sendAudioChunk" /\ last.res = "WebSocket not connected"
  /\ ws = "closed" /\ timers # EmptyBag

\* C8: every disconnect() returns normally and leaves isConnected() false;
\* a disconnect() right after a disconnect() sends nothing and changes no
\* client state.
C8_DisconnectIdempotent ==
  [][ /\ last'.op = "disconnect" => last'.res = "ok" /\ ws' # "open"
      /\ last.op = "disconnect" /\ last'.op = "disconnect" =>
           out' = <<>> /\ UNCHANGED prog ]_vars

C8_Witness == last.op = "disconnect" /\ last.again /\ userDisconnected = "waiting"

\* C9: disconnect() with this.ws open and a session id held sends exactly one
\* stop_session carrying that id and then closes the transport; with no
\* session id held it sends nothing.
C9_StopSessionBeforeClose ==
  last.op = "disconnect" =>
    /\ last.conn /\ last.sid # 0 =>
         out = <<Eff("send", 0, "stop_session", last.sid),
                 Eff("close", 0, "Client disconnect", NormalClosure)>>
    /\ last.sid = 0 => NoneOf("send")

C9_Witness ==
  last.op = "disconnect" /\ last.conn /\ last.sid = MaxSessionId /\ Len(out) = 2

\* C10: while this.ws is open one heartbeat interval is active and each of
\* its ticks sends a ping; after disconnect() (until the caller connects
\* again) and while this.ws is closed no interval is active and no ping is
\* sent.
C10_HeartbeatFollowsTransport ==
  /\ ws = "open" => heartbeatInterval /\ intervals = 1
  /\ last.op = "tick" =>
       out = IF last.conn THEN <<Eff("send", 0, "ping", 0)>> ELSE <<>>
  /\ userDisconnected # "no" => intervals = 0
  /\ ws = "closed" => intervals = 0

\* ------------------------------------------------------------------------
\* transports that are open or connecting with the callbacks of connect()
\* attached, whether or not this.ws still names them
LiveTransports ==
  (IF ws \in {"connecting", "open"} THEN 1 ELSE 0)
    + orphans["connecting"] + orphans["open"]

\* C11: at most one transport is open or connecting with the client's
\* callbacks attached and at most one heartbeat interval is active, whatever
\* connect() calls were made; the closure of a transport this.ws no longer
\* names neither stops the heartbeat of the open current transport nor starts
\* the reconnection policy.
C11_OneTransportOneHeartbeat ==
  /\ LiveTransports <= 1
  /\ intervals <= 1
  /\ last.op = "close" /\ ~last.cur =>
       /\ ws = "open" => heartbeatInterval
       /\ ~PolicyStarted

\* ------------------------------------------------------------------------
\* the handler invocations of the last step, in order
Fired == SelectSeq(out, LAMBDA e : e.k = "fire")

DroppedKinds == {"binary", "blob", "invalid_json", "json_null", "no_type",
                 "unknown", "pong", "session_stopped"}

C13_MalformedDropped ==
  [][ /\ last'.op \in DroppedKinds =>
           /\ \A i \in DOMAIN out' : out'[i].k \notin {"fire", "throw"}
           /\ last'.res = "ok"
           /\ UNCHANGED prog
      /\ last.op \in DroppedKinds /\ last'.op = "translation" =>
           out' = Fire("translation", last'.code) ]_vars

C13_Witness ==
  /\ last.op = "invalid_json" /\ out = Caught(0)
  /\ sessionId # 0 /\ heartbeatInterval
  /\ handlers["error"] = MaxHandlers

\* C14: whatever the handlers do, every occurrence of an event invokes every
\* handler registered for it once, in registration order, within the step
\* in which the event occurs.
C14_EveryHandlerRuns ==
  /\ last.op = "session_started" /\ last.code # NoPayload =>
       Fired = Fire("sessionStarted", last.code)
  /\ last.op = "translation" => Fired = Fire("translation", last.code)
  /\ last.op = "error" => Fired = Fire("error", last.code)
  /\ AbnormalClose =>
       Fired = Fire(IF last.att >= maxRetries THEN "maxRetries"
                    ELSE "reconnecting", 0)

\* ------------------------------------------------------------------------
\* C15: when the transport has been open for 5 s without a session_started,
\* a connection timeout has been put on display exactly once, and nothing
\* was done towards a reconnect: the transport is still the open one and no
\* reconnection timeout is pending.
C15_TimeoutSurfacedOnce ==
  app.deadline = "passed" =>
    /\ app.shown = 1
    /\ ws = "open" /\ timers = EmptyBag /\ OrphanCount = 0

\* C16: translationService holds a session only after a session_started
\* frame was received on the current connection, and its id is the id that
\* frame carried.
C16_SessionOnlyAfterAcceptance ==
  app.session # 0 => sessionId # 0 /\ app.session = sessionId

\* ------------------------------------------------------------------------
\* a < b for numbers given by their halves
Less(a, b) == a.hi < b.hi \/ (a.hi = b.hi /\ a.lo < b.lo)

\* the uint32 that bytes 0-3 of a frame spell, least significant byte first
SeqOnWire(frame) ==
  [hi |-> frame[3] + 256 * frame[4], lo |-> frame[1] + 256 * frame[2]]

Increasing(f) ==
  \A i, j \in DOMAIN f : i < j => Less(f[i], f[j])

\* one frame per logged call, in call order: frame i carries the audio of
\* call i and its sequence number modulo 2^32
OneFramePerCall ==
  /\ Len(io.wire) = Len(io.calls)
  /\ \A i \in DOMAIN io.calls :
       /\ SubSeq(io.wire[i], 9, Len(io.wire[i])) = io.calls[i].audioData
       /\ SeqOnWire(io.wire[i]).lo = io.calls[i].sequenceNumber.lo
       /\ SeqOnWire(io.wire[i]).hi = io.calls[i].sequenceNumber.hi % 65536

CallSeqs == [i \in DOMAIN io.calls |-> io.calls[i].sequenceNumber]
WireSeqs == [i \in DOMAIN io.wire |-> SeqOnWire(io.wire[i])]

\* C17 as stated: one binary frame per sendAudioChunk call on an open
\* transport, in call order; and if the caller's sequence numbers are
\* strictly increasing, so are the sequence numbers read from the frames.
C17_FramesInCallOrder ==
  io.stage = "log" =>
    /\ OneFramePerCall
    /\ Increasing(CallSeqs) => Increasing(WireSeqs)

\* C17 amended: the same, for sequence numbers within the unsigned 32-bit
\* range.
C17_FramesInCallOrderUint32 ==
  io.stage = "log" =>
    /\ OneFramePerCall
    /\ Increasing(CallSeqs) /\ (\A i \in DOMAIN CallSeqs : CallSeqs[i].hi < 65536)
         => Increasing(WireSeqs)

C17_Witness ==
  /\ io.stage = "log" /\ Len(io.calls) = MaxCalls
  /\ Increasing(CallSeqs) /\ CallSeqs[MaxCalls] = [hi |-> 65535, lo |-> 65535]
  /\ last.op = "sendAudioChunk" /\ last.conn

\* C18: for a payload of n bytes and S, T within the unsigned 32-bit range,
\* sendAudioChunk on an open transport sends one frame of n + 8 bytes: bytes
\* 0-3 spell S and bytes 4-7 spell T, least significant byte first, and the
\* rest is the payload, which the caller still holds unchanged.
C18_FrameLayout ==
  /\ io.stage = "input" /\ last.op = "sendAudioChunk" /\ last.conn
  /\ io.sequenceNumber \in Uint32s /\ io.timestamp \in Uint32s
  => /\ Len(out) = 1 /\ out[1].k = "send"
     /\ LET frame == out[1].v IN
          /\ Len(frame) = Len(io.audioData) + 8
          /\ frame[1] + 256 * frame[2] = io.sequenceNumber.lo
          /\ frame[3] + 256 * frame[4] = io.sequenceNumber.hi
          /\ frame[5] + 256 * frame[6] = io.timestamp.lo
          /\ frame[7] + 256 * frame[8] = io.timestamp.hi
          /\ \A i \in DOMAIN io.audioData : frame[8 + i] = io.audioData[i]

C18_Witness ==
  /\ io.stage = "input" /\ last.op = "sendAudioChunk" /\ last.conn
  /\ io.sequenceNumber = [hi |-> 65535, lo |-> 256]
  /\ io.timestamp = [hi |-> 1, lo |-> 255]
  /\ Len(io.audioData) = MaxPayloadLen /\ io.audioData[1] # io.audioData[2]

\* C19: for S and T within the unsigned 32-bit range,
\* parseAudioChunk(createAudioChunk(P, S, T)) returns P, S and T.
C19_RoundTrip ==
  /\ io.stage = "parsed"
  /\ io.sequenceNumber \in Uint32s /\ io.timestamp \in Uint32s
  => /\ io.chunk.ok
     /\ io.chunk.data = io.audioData
     /\ io.chunk.sequenceNumber = io.sequenceNumber
     /\ io.chunk.timestamp = io.timestamp

C19_Witness ==
  /\ io.stage = "parsed" /\ io.chunk.ok
  /\ io.sequenceNumber = [hi |-> 256, lo |-> 65535]
  /\ io.timestamp = [hi |-> 65535, lo |-> 1]
  /\ Len(io.audioData) = MaxPayloadLen /\ io.audioData[1] # io.audioData[2]

\* C20: parseAudioChunk throws for every buffer of 0 to 7 bytes and returns
\* a chunk for every buffer of 8 bytes or more; a buffer of 8 bytes gives
\* empty audio data.
C20_UndersizedRejected ==
  io.stage = "rawParsed" =>
    /\ Len(io.buffer) < 8 =>
         ~io.chunk.ok
         /\ io.chunk.error = "Invalid audio chunk: buffer too small"
    /\ Len(io.buffer) >= 8 =>
         io.chunk.ok /\ Len(io.chunk.data) = Len(io.buffer) - 8
    /\ Len(io.buffer) = 8 => io.chunk.ok /\ io.chunk.data = <<>>

C20_Witness ==
  /\ io.stage = "rawParsed" /\ Len(io.buffer) = 7 /\ ~io.chunk.ok
  /\ io.buffer[7] = 255

\* C21: validateChunkSequence returns true exactly when every chunk's
\* sequence number is strictly greater than its predecessor's; it is true
\* for the empty list and for every one-element list, and the list is the
\* same after the call.
C21_StrictlyIncreasingOnly ==
  io.stage = "validated" =>
    /\ io.result <=>
         \A i \in 2..Len(io.given) :
           Less(io.given[i - 1].sequenceNumber, io.given[i].sequenceNumber)
    /\ Len(io.given) <= 1 => io.result
    /\ io.chunks = io.given

\* two equal neighbours after an increasing pair
C21_Witness ==
  /\ io.stage = "validated" /\ ~io.result
  /\ Len(io.given) = 3
  /\ Less(io.given[1].sequenceNumber, io.given[2].sequenceNumber)
  /\ io.given[2].sequenceNumber = io.given[3].sequenceNumber

\* C22: within one capture the numbers given to the captured chunks start
\* at 0 and are strictly increasing.
C22_CaptureNumbersIncrease ==
  io.stage = "capture" =>
    /\ io.assigned # <<>> => io.assigned[1] = 0
    /\ \A i, j \in DOMAIN io.assigned : i < j => io.assigned[i] < io.assigned[j]

\* what the last call of the service invoked, as a set
InvokedBy(h) == {i \in DOMAIN io.call.invoked : io.call.invoked[i].handler = h}

Handled ==
  io.stage = "service" /\ io.call.op = "handleTranslationResponse"

\* C23: with a session, an interim response of confidence below 0.6 invokes
\* no result handler; every final response and every interim response of
\* confidence 0.6 or more invokes each registered handler exactly once, with
\* the text, isFinal and confidence of the response.
C23_ConfidenceFilter ==
  Handled /\ io.call.session # NoSession =>
    LET r == io.call.arg IN
    /\ ~r.isFinal /\ r.confidence < 60 => io.call.invoked = <<>>
    /\ r.isFinal \/ r.confidence >= 60 =>
         /\ Len(io.call.invoked) = Len(io.call.resultHandlers)
         /\ \A k \in DOMAIN io.call.resultHandlers :
              /\ Cardinality(InvokedBy(io.call.resultHandlers[k])) = 1
              /\ \A i \in InvokedBy(io.call.resultHandlers[k]) :
                   io.call.invoked[i].result =
                     [text |-> r.text, isFinal |-> r.isFinal,
                      confidence |-> r.confidence]

\* an interim response of confidence exactly 0.6 reaches two handlers
C23_Witness ==
  /\ Handled /\ io.call.session # NoSession
  /\ ~io.call.arg.isFinal /\ io.call.arg.confidence = 60
  /\ Len(io.call.resultHandlers) = 2 /\ Len(io.call.invoked) = 2

\* C24 as stated: initSession with equal source and target language fails
\* and leaves the session as it was, so a session never has equal languages.
C24_EqualLanguagesRejected ==
  io.stage = "service" =>
    /\ io.call.op = "initSession"
       /\ io.call.arg.sourceLanguage = io.call.arg.targetLanguage
       => io.call.threw # "none" /\ io.session = io.call.session
    /\ io.session # NoSession =>
         io.session.sourceLanguage # io.session.targetLanguage

\* C25: handleTranslationResponse without a session throws 'No active
\* translation session', records no latency sample and invokes no handler.
C25_NoSessionRejected ==
  Handled /\ io.call.session = NoSession =>
    /\ io.call.threw = "No active translation session"
    /\ io.latencies = io.call.latencies
    /\ io.call.invoked = <<>>
    /\ io.session = NoSession

\* a final response with a latency, with a handler registered, after a reset
C25_Witness ==
  /\ Handled /\ io.call.session = NoSession
  /\ io.call.threw # "none"
  /\ io.call.arg.isFinal /\ io.call.arg.latency = 100
  /\ io.resultHandlers # <<>> /\ io.cleared > 0

\* C26 as stated: a response handled with a session sets lastActivityAt to
\* the time of the call and, if it carries a latency (0 included, suppressed
\* responses included), appends exactly that one sample.
C26_LatencyAlwaysRecorded ==
  Handled /\ io.call.session # NoSession =>
    /\ io.session.lastActivityAt = io.call.at
    /\ io.latencies =
         IF io.call.arg.latency # NoLatency
         THEN Append(io.call.latencies, io.call.arg.latency)
         ELSE io.call.latencies

\* the value at index k (from 0) of the samples in ascending order
Ranked(samples, k) ==
  CHOOSE v \in {samples[i] : i \in DOMAIN samples} :
    /\ Cardinality({i \in DOMAIN samples : samples[i] < v}) <= k
    /\ k < Cardinality({i \in DOMAIN samples : samples[i] <= v})

Measured ==
  io.stage = "service" /\ io.call.op = "getLatencyMetrics"

C28_TestPercentiles ==
  Measured =>
    /\ io.call.latencies = P50Latencies => io.call.returned.p50 = 300
    /\ io.call.latencies = P95Latencies => io.call.returned.p95 = 950

\* C29: right after reset() there is no session and no sample, and no
\* handler registered before a reset is invoked by a later
\* handleTranslationResponse.
C29_ResetForgetsHandlers ==
  /\ io.stage = "service" /\ io.call.op = "reset" =>
       io.session = NoSession /\ getLatencyMetrics.count = 0
  /\ Handled =>
       \A i \in DOMAIN io.call.invoked : io.call.invoked[i].handler > io.cleared

\* a handler registered after a reset is invoked in the new session
C29_Witness ==
  /\ Handled /\ io.cleared = 1 /\ io.call.session # NoSession
  /\ io.call.invoked # <<>> /\ io.call.invoked[1].handler = 2

C38_CounterAndDelaysBounded ==
  /\ reconnectionAttempts \in 0..3
  /\ \A d \in BagToSet(timers) : d \in {1000, 2000, 4000}
  /\ \A i \in DOMAIN out :
       out[i].k = "setTimeout" => out[i].v \in {1000, 2000, 4000}

\* the third retry has just been scheduled
C38_Witness ==
  /\ reconnectionAttempts = 3 /\ last.op = "close" /\ last.att = 2
  /\ BagIn(4000, timers)
  /\ \E i \in DOMAIN out : out[i].k = "setTimeout" /\ out[i].v = 4000

\* C37 as stated: the client holds a session id only while the transport it
\* was issued on is the open transport of the client; the id is cleared when
\* that transport closes.
C37_SessionIdOfOpenTransport ==
  /\ sessionId # 0 => ws = "open"
  /\ last.op = "close" /\ last.cur => sessionId = 0

\* C35: updateStatus and handleTranslationResponse leave createdAt as
\* initSession set it and never move lastActivityAt back, and lastActivityAt
\* is never before createdAt.
C35_CreatedAtFixed ==
  io.stage = "service" =>
    /\ io.session # NoSession =>
         io.session.createdAt <= io.session.lastActivityAt
    /\ io.call.op \in {"updateStatus", "handleTranslationResponse"}
       /\ io.call.session # NoSession =>
         /\ io.session.createdAt = io.call.session.createdAt
         /\ io.session.lastActivityAt >= io.call.session.lastActivityAt

\* a status change later than the creation of the session
C35_Witness ==
  /\ io.stage = "service" /\ io.call.op = "updateStatus"
  /\ io.call.session # NoSession
  /\ io.session.createdAt = 0 /\ io.call.session.lastActivityAt = 0
  /\ io.session.lastActivityAt = 1

\* C34 as stated: once every start request of the open popup has completed
\* successfully, no 5 s timeout of the popup is pending any more, so none can
\* put the timeout message on display.
C34_TimeoutCancelledOnSuccess ==
  app.popup = "open" /\ app.running = <<>> => app.popupTimers = {}

\* C33 as stated: whatever start/stop and mount/unmount cycles came before,
\* a translation frame received while translationService holds a session
\* causes exactly one handleTranslationResponse call.
C33_OneCallPerFrame ==
  last.op = "translation" /\ app.session # 0 =>
    Cardinality({i \in DOMAIN out : out[i].k = "fire"}) = 1

\* C36 as stated: the promise of a connect() call is settled in the end,
\* whether a transport opens, the attempt fails or the retries run out.
C36_ConnectSettles ==
  (io.promise = "pending") ~> (io.promise # "pending")

\* C31 as stated: once startTranslation and startCapture have resolved and
\* a chunk callback is registered, every blob the recorder delivers while
\* the client is connected makes one sendAudioChunk call on the client.
C31_EveryChunkSent ==
  io.stage = "pipeline" => io.calls = io.blobs

\* C32 as stated: every frame the pipeline hands to the transport is one
\* 8-byte header followed by the captured bytes, so it is 8 bytes longer
\* than the blob.
C32_OneHeaderPerFrame ==
  io.stage = "pipeline" /\ last.op = "sendAudioChunk" =>
    \A i \in DOMAIN out :
      out[i].k = "send" =>
        /\ Len(out[i].v) = Len(io.blob) + 8
        /\ SubSeq(out[i].v, 9, Len(out[i].v)) = io.blob

\* C39 as stated: of two displayAd calls for the same zone id of which the
\* second began while the first was waiting for its ad to load, at most
\* one returns true.
C39_AtMostOneDisplays ==
  io.stage = "ad" =>
    \A i, j \in DOMAIN io.calls :
      /\ i \in io.calls[j].during
      /\ io.calls[i].zoneId = io.calls[j].zoneId
      /\ io.calls[i].pc = "done" /\ io.calls[j].pc = "done"
      => ~(io.calls[i].result /\ io.calls[j].result)

\* C40 as stated: after any sequence of header drags and edge or corner
\* resizes the overlay is inside the viewport,
\* 0 <= x <= innerWidth - width and 0 <= y <= innerHeight - height.
C40_InsideViewport ==
  io.stage = "overlay" =>
    /\ 0 <= io.x /\ io.x <= innerWidth - io.width
    /\ 0 <= io.y /\ io.y <= innerHeight - io.height
====
